---------------------------- MODULE Spec2Model ----------------------------
(***************************************************************************)
(* Model of src/bitarray.c: the packed bit array (bitarray_get,            *)
(* bitarray_set), its rotation (bitarray_rotate, bitarray_rotate_left) and *)
(* the reversal routines behind it (reverse, reverse_short, reverse_byte), *)
(* and the helpers modulo and bitmask.                                     *)
(*                                                                         *)
(* A buffer is a function from byte indices 0 .. ceil(bit_sz/8)-1 to byte  *)
(* values 0 .. 255 (the bit pattern of a char).  size_t and ssize_t are    *)
(* SizeBits wide and wrap as the C types do; int8_t is 8 bits wide.        *)
(* Signed arithmetic that overflows wraps to the width of its type.        *)
(* assert is active: a failed assertion ends the process ("abort").  An    *)
(* access outside the buffer is undefined behaviour ("ub"): the call stops *)
(* there and what the buffer holds afterwards is chosen                    *)
(* nondeterministically.                                                   *)
(***************************************************************************)
EXTENDS Integers, Sequences

\* ------------------------------------------------------------------ bounds
\* Width of size_t / ssize_t in the model (64 in the build).
SizeBits == 12
\* Largest bit_sz a bit array is created with.
MaxBitSz == 16
\* Rotation amounts are drawn from -MaxAmt .. MaxAmt and the two extremes.
MaxAmt == 4
\* Number of shifted copies of the example word used as initial contents.
NumPatterns == 3
\* modulo is applied to dividends -MaxN .. MaxN and divisors 0 .. MaxM,
\* and to the extreme values of their types.
MaxN == 9
MaxM == 5

\* ------------------------------------------------------- integer widths
SizeMod == 2 ^ SizeBits
SIZE_MAX == SizeMod - 1
SSIZE_MAX == 2 ^ (SizeBits - 1) - 1
SSIZE_MIN == -(2 ^ (SizeBits - 1))

\* Conversion to size_t: reduction modulo 2^SizeBits.
ToSize(x) == x % SizeMod

\* Conversion to ssize_t: two's complement reading of the low SizeBits bits.
ToSsize(x) == LET u == x % SizeMod IN IF u > SSIZE_MAX THEN u - SizeMod ELSE u

\* Conversion to int8_t: two's complement reading of the low 8 bits.
ToInt8(x) == LET u == x % 256 IN IF u > 127 THEN u - 256 ELSE u

\* Conversion of a size_t to int (32 bits): values up to INT_MAX are kept,
\* larger ones wrap.
ToInt(x) ==
  LET intmax == 2147483647
  IN  IF x <= intmax THEN x ELSE ((x - intmax) - 1) - intmax - 1

\* C's % on signed operands with a positive divisor: the sign of the dividend.
CRem(n, m) == IF n >= 0 THEN n % m ELSE -((-n) % m)

\* C's / on int operands with a positive divisor: truncation towards zero.
CDiv(a, b) == IF a >= 0 THEN a \div b ELSE -((-a) \div b)

\* ---------------------------------------------------------- byte values
\* Bitwise operations on the bit patterns of chars, 0 .. 255.
RECURSIVE BitAnd(_, _)
BitAnd(a, b) ==
  IF a = 0 \/ b = 0 THEN 0
  ELSE (a % 2) * (b % 2) + 2 * BitAnd(a \div 2, b \div 2)

RECURSIVE BitOr(_, _)
BitOr(a, b) ==
  IF a = 0 THEN b
  ELSE IF b = 0 THEN a
  ELSE (IF a % 2 = 1 \/ b % 2 = 1 THEN 1 ELSE 0) + 2 * BitOr(a \div 2, b \div 2)

\* ~x truncated to a char.
BitNot(a) == 255 - a

\* bitmask: 1 << (bit_index % 8).
bitmask(bit_index) == 2 ^ (bit_index % 8)

\* ------------------------------------------------------------- storage
\* Number of bytes bitarray_new allocates: (bit_sz + 7) / 8.
NumBytes(sz) == (sz + 7) \div 8

\* The zero-filled buffer of bitarray_new.
bitarray_new(sz) == [b \in 0 .. NumBytes(sz) - 1 |-> 0]

\* The machine state while one call runs: the array, how the call stands
\* ("ok" running or returned, "abort" assertion failed, "ub" undefined
\* behaviour executed), and what the call did to memory:
\*   acc    a byte of memory was read or written through buf,
\*   oob    a byte index outside the buffer was read or written,
\*   trunc  reverse stored a boundary in int8_t that is not its mathematical
\*          value, or converted a negative boundary to size_t.
Machine(sz, b) ==
  [bit_sz |-> sz, buf |-> b, st |-> "ok", acc |-> FALSE, oob |-> FALSE,
   trunc |-> FALSE]

\* One access to bitarray->buf[b].
Touch(m, b) ==
  IF m.st # "ok" THEN m
  ELSE IF b \in DOMAIN m.buf THEN [m EXCEPT !.acc = TRUE]
  ELSE [m EXCEPT !.acc = TRUE, !.oob = TRUE, !.st = "ub"]

\* ----------------------------------------------------------- accessors
\* bitarray_get: the machine after the call and the value returned.
bitarray_get(m, bit_index) ==
  IF ~(bit_index < m.bit_sz)
  THEN [m |-> [m EXCEPT !.st = "abort"], val |-> FALSE]
  ELSE [m   |-> Touch(m, bit_index \div 8),
        val |-> BitAnd(m.buf[bit_index \div 8], bitmask(bit_index)) # 0]

\* bitarray_set without the mask that clears the bit before it is set.
bitarray_set_noclear(m, bit_index, value) ==
  IF m.st # "ok" THEN m
  ELSE IF ~(bit_index < m.bit_sz) THEN [m EXCEPT !.st = "abort"]
  ELSE [Touch(m, bit_index \div 8) EXCEPT
          !.buf[bit_index \div 8] =
             BitOr(@, IF value THEN bitmask(bit_index) ELSE 0)]

\* bitarray_set.
bitarray_set(m, bit_index, value) ==
  IF m.st # "ok" THEN m
  ELSE IF ~(bit_index < m.bit_sz) THEN [m EXCEPT !.st = "abort"]
  ELSE [Touch(m, bit_index \div 8) EXCEPT
          !.buf[bit_index \div 8] =
             BitOr(BitAnd(@, BitNot(bitmask(bit_index))),
                   IF value THEN bitmask(bit_index) ELSE 0)]

\* -------------------------------------------------------------- modulo
\* modulo without the second reduction: (n % signed_m) + signed_m.
modulo_unreduced(n, m) ==
  LET signed_m == ToSsize(m)
  IN  IF ~(signed_m > 0) THEN [st |-> "abort", val |-> 0]
      ELSE LET result == ToSsize(CRem(n, signed_m) + signed_m)
           IN  IF ~(result >= 0) THEN [st |-> "abort", val |-> 0]
               ELSE [st |-> "ok", val |-> ToSize(result)]

\* modulo(n, m): st is "abort" when one of its assertions fails, and val is
\* the value returned otherwise.  (n % signed_m) + signed_m is an ssize_t.
modulo(n, m) ==
  LET signed_m == ToSsize(m)
  IN  IF ~(signed_m > 0) THEN [st |-> "abort", val |-> 0]
      ELSE LET result == CRem(ToSsize(CRem(n, signed_m) + signed_m), signed_m)
           IN  IF ~(result >= 0) THEN [st |-> "abort", val |-> 0]
               ELSE [st |-> "ok", val |-> ToSize(result)]

\* ------------------------------------------------------------ reversal
RECURSIVE reverse_short_loop(_, _, _, _)
reverse_short_loop(m, byte, i, j) ==
  IF m.st # "ok" \/ ~(i < j) THEN m
  ELSE LET tmp == BitAnd(byte, bitmask(i)) # 0
           m1  == bitarray_set(m, i, BitAnd(byte, bitmask(i)) # 0)
           m2  == bitarray_set(m1, j, tmp)
       IN  reverse_short_loop(m2, byte, ToSize(i + 1), ToSize(j - 1))

\* reverse_short: byte = buf[left >> 3], then the loop.
reverse_short(m, left, right) ==
  IF m.st # "ok" THEN m
  ELSE LET m1 == Touch(m, left \div 8)
       IN  IF m1.st # "ok" THEN m1
           ELSE reverse_short_loop(m1, m1.buf[left \div 8], left, right)

RECURSIVE reverse_byte_loop(_, _, _)
reverse_byte_loop(m, i, j) ==
  IF m.st # "ok" \/ ~(i < j) THEN m
  ELSE LET m1 == Touch(Touch(m, i), j)
       IN  IF m1.st # "ok" THEN m1
           ELSE LET m2 == [m1 EXCEPT !.buf[i] = m1.buf[j], !.buf[j] = m1.buf[i]]
                    m3 == reverse_short(m2, ToSize(8 * i), ToSize(8 * i + 7))
                    m4 == reverse_short(m3, ToSize(8 * j), ToSize(8 * j + 7))
                IN  reverse_byte_loop(m4, ToSize(i + 1), ToSize(j - 1))

\* reverse_byte.
reverse_byte(m, byteleft, byteright) == reverse_byte_loop(m, byteleft, byteright)

\* The boundaries reverse stores in int8_t.
WholeL(left) == ToInt8(ToSize((ToSize(left + 7) \div 8) * 8))
WholeR(right) == ToInt8(ToSize(right - (right % 8)))

\* reverse.
reverse(m, left, right) ==
  IF m.st # "ok" THEN m
  ELSE LET wholel == WholeL(left)
           wholer == WholeR(right)
           lost   == \/ wholel # ((left + 7) \div 8) * 8
                     \/ wholer # right - (right % 8)
                     \/ wholel - 1 < 0
                     \/ CDiv(wholer, 8) - 1 < 0
           m0 == Touch(Touch(m, left \div 8), right \div 8)
           m1 == reverse_short([m0 EXCEPT !.trunc = @ \/ lost], left,
                               ToSize(wholel - 1))
           m2 == reverse_short(m1, ToSize(wholer), right)
       IN  reverse_byte(m2, ToSize(CDiv(wholel, 8)), ToSize(CDiv(wholer, 8) - 1))

\* ------------------------------------------------------------ rotation
\* bitarray_rotate_left.
bitarray_rotate_left(m, bit_offset, bit_length, bit_left_amount) ==
  LET l  == bit_offset
      mm == ToSize(bit_offset + bit_left_amount)
      r  == ToSize(bit_offset + bit_length - 1)
  IN  IF bit_left_amount = 0 THEN m
      ELSE reverse(reverse(reverse(m, l, ToSize(mm - 1)), mm, r), l, r)

\* bitarray_rotate.  -bit_right_amount is an ssize_t: SSIZE_MIN negates to
\* itself.
bitarray_rotate(m, bit_offset, bit_length, bit_right_amount) ==
  IF ~(ToSize(bit_offset + bit_length) <= m.bit_sz) THEN [m EXCEPT !.st = "abort"]
  ELSE LET md == modulo(ToSsize(-bit_right_amount), bit_length)
           bit_left_amount == ToInt(md.val)
       IN  IF md.st # "ok" THEN [m EXCEPT !.st = md.st]
           ELSE IF bit_length = 0 \/ bit_left_amount = 0 THEN m
           ELSE bitarray_rotate_left(m, bit_offset, bit_length,
                                     ToSize(bit_left_amount))

\* ------------------------------------------------------- the program
\* bit_sz, buf   the bit array (struct bitarray);
\* status        "ok" the last call returned (or none was made), "abort" an
\*               assertion failed, "ub" undefined behaviour was executed;
\* op            the last call: "new", "get", "set", "rotate", "rotate_back"
\*               (the rotate that undoes the one before), "reverse", "modulo";
\* a1, a2, a3    its arguments, in the order of the C parameters
\*               (get, set: bit_index, value as 0/1; rotate: bit_offset,
\*               bit_length, bit_right_amount; reverse: left, right;
\*               modulo: n, m);
\* pre           the buffer before the call (before the first of a rotate
\*               and the rotate that undoes it);
\* ret           the value the call returned (get: 0/1; modulo: r);
\* acc, oob, trunc   what the call did to memory, as in Machine.
VARIABLES bit_sz, buf, status, op, a1, a2, a3, pre, ret, acc, oob, trunc

vars == <<bit_sz, buf, status, op, a1, a2, a3, pre, ret, acc, oob, trunc>>

\* The word of the rotation example, index 0 first: 1101001011.
ExampleWord == <<1, 1, 0, 1, 0, 0, 1, 0, 1, 1>>

\* The array after bitarray_new(sz) and one bitarray_set per index, storing
\* the example word repeated, starting at its p-th bit.
RECURSIVE Filled(_, _, _)
Filled(m, i, p) ==
  IF i = m.bit_sz THEN m
  ELSE Filled(bitarray_set(m, i, ExampleWord[((i + p) % 10) + 1] = 1), i + 1, p)

\* The contents the arrays start with: fresh from bitarray_new, or filled.
Contents(sz) ==
  {bitarray_new(sz)} \cup
  {Filled(Machine(sz, bitarray_new(sz)), 0, p).buf : p \in 0 .. NumPatterns - 1}

Init ==
  /\ bit_sz \in 1 .. MaxBitSz
  /\ buf \in Contents(bit_sz)
  /\ status = "ok"
  /\ op = "new"
  /\ a1 = 0 /\ a2 = 0 /\ a3 = 0
  /\ pre = buf
  /\ ret = 0
  /\ acc = FALSE /\ oob = FALSE /\ trunc = FALSE

\* What memory may hold once undefined behaviour was executed: the buffer as
\* the call left it, or overwritten.
UBBufs(m) ==
  {m.buf, [b \in DOMAIN m.buf |-> 0], [b \in DOMAIN m.buf |-> 255]}

\* The end of a call that left the machine in m.
Finish(m) ==
  /\ status' = m.st
  /\ buf' \in (IF m.st = "ub" THEN UBBufs(m) ELSE {m.buf})
  /\ acc' = m.acc /\ oob' = m.oob /\ trunc' = m.trunc

\* The values indices, offsets and lengths are drawn from: everything up to
\* one past the end of the array, and the largest values of size_t.
Sizes == (0 .. bit_sz + 1) \cup {SIZE_MAX - 1, SIZE_MAX}

\* The rotation amounts: small ones and the extremes of ssize_t.
Amounts == (-MaxAmt .. MaxAmt) \cup {SSIZE_MIN, SSIZE_MAX}

\* A call of bitarray_get.
Get ==
  /\ op = "new"
  /\ \E bit_index \in Sizes :
       LET g == bitarray_get(Machine(bit_sz, buf), bit_index)
       IN  /\ Finish(g.m)
           /\ ret' = (IF g.val THEN 1 ELSE 0)
           /\ op' = "get" /\ a1' = bit_index /\ a2' = 0 /\ a3' = 0
  /\ pre' = buf
  /\ UNCHANGED bit_sz

\* A call of bitarray_set.
Set ==
  /\ op = "new"
  /\ \E bit_index \in Sizes, value \in BOOLEAN :
       /\ Finish(bitarray_set(Machine(bit_sz, buf), bit_index, value))
       /\ op' = "set" /\ a1' = bit_index /\ a2' = (IF value THEN 1 ELSE 0)
       /\ a3' = 0
  /\ pre' = buf /\ ret' = 0
  /\ UNCHANGED bit_sz

\* A call of bitarray_rotate.
Rotate ==
  /\ op = "new"
  /\ \E bit_offset \in Sizes, bit_length \in Sizes, bit_right_amount \in Amounts :
       /\ Finish(bitarray_rotate(Machine(bit_sz, buf), bit_offset, bit_length,
                                 bit_right_amount))
       /\ op' = "rotate" /\ a1' = bit_offset /\ a2' = bit_length
       /\ a3' = bit_right_amount
  /\ pre' = buf /\ ret' = 0
  /\ UNCHANGED bit_sz

\* After a bitarray_rotate by k that returned, the call of bitarray_rotate
\* on the same range by -k.
RotateBack ==
  /\ op = "rotate" /\ status = "ok" /\ a3 # SSIZE_MIN
  /\ Finish(bitarray_rotate(Machine(bit_sz, buf), a1, a2, -a3))
  /\ op' = "rotate_back"
  /\ UNCHANGED <<bit_sz, a1, a2, a3, pre, ret>>

\* A call of reverse as bitarray_rotate_left makes it: left <= right, both
\* in the array.
Reverse ==
  /\ op = "new"
  /\ \E left \in 0 .. bit_sz - 1, right \in 0 .. bit_sz - 1 :
       /\ left <= right
       /\ Finish(reverse(Machine(bit_sz, buf), left, right))
       /\ op' = "reverse" /\ a1' = left /\ a2' = right /\ a3' = 0
  /\ pre' = buf /\ ret' = 0
  /\ UNCHANGED bit_sz

Next == Get \/ Set \/ Rotate \/ RotateBack \/ Reverse

Spec == Init /\ [][Next]_vars

\* ------------------------------------------ modulo on its own
\* The dividends and divisors modulo is applied to.
Dividends ==
  (-MaxN .. MaxN) \cup {SSIZE_MIN, SSIZE_MIN + 1, SSIZE_MAX - 1, SSIZE_MAX}
Divisors ==
  (0 .. MaxM) \cup {SSIZE_MAX \div 2 + 1, SSIZE_MAX - 1, SSIZE_MAX,
                    SSIZE_MAX + 1, SIZE_MAX}

InitModulo ==
  /\ bit_sz = 1
  /\ buf = bitarray_new(1)
  /\ status = "ok"
  /\ op = "new"
  /\ a1 \in Dividends /\ a2 \in Divisors /\ a3 = 0
  /\ pre = buf
  /\ ret = 0
  /\ acc = FALSE /\ oob = FALSE /\ trunc = FALSE

\* A call of modulo(a1, a2).
Modulo ==
  /\ op = "new"
  /\ LET md == modulo(a1, a2)
     IN  /\ status' = md.st
         /\ ret' = md.val
  /\ op' = "modulo"
  /\ UNCHANGED <<bit_sz, buf, a1, a2, a3, pre, acc, oob, trunc>>

NextModulo == Modulo

SpecModulo == InitModulo /\ [][NextModulo]_vars

\* ---------------------------------------------------------- the claims
\* What bitarray_get returns for index i of an array holding b.
GetBit(b, i) == bitarray_get(Machine(bit_sz, b), i).val

\* The last call was a bitarray_rotate whose range lies in the array.
RotateInRange == op = "rotate" /\ a1 + a2 <= bit_sz

\* C1: a bitarray_rotate of a range in the array, of length > 0, that has
\* returned has moved the bit of every index offset + i of the range to
\* index offset + ((i + right_amount) mod length) and has left every bit
\* outside the range as it was.
C1_RotateMovesBits ==
  (RotateInRange /\ a2 > 0 /\ status = "ok") =>
     /\ \A i \in 0 .. a2 - 1 :
          GetBit(buf, a1 + ((i + a3) % a2)) = GetBit(pre, a1 + i)
     /\ \A j \in 0 .. bit_sz - 1 :
          (j < a1 \/ j >= a1 + a2) => GetBit(buf, j) = GetBit(pre, j)

\* C2: a bitarray_rotate of a range in the array runs to completion: no
\* assertion fails (and nothing undefined is executed).
C2_RotateNeverFails == RotateInRange => status = "ok"

\* C3: a bitarray_rotate of an empty range (length 0, offset <= bit_sz)
\* returns normally and leaves the array unchanged, whatever the amount.
C3_RotateEmptyRange ==
  (op = "rotate" /\ a2 = 0 /\ a1 <= bit_sz) => (status = "ok" /\ buf = pre)

\* C4: a bitarray_rotate of a range in the array, of length > 0, by 0 or by
\* any positive or negative multiple of the length returns normally and
\* leaves every byte of the array unchanged.
C4_RotateByMultiple ==
  (RotateInRange /\ a2 > 0 /\ a3 % a2 = 0) => (status = "ok" /\ buf = pre)

\* C4's case: a non-empty array rotated left by twice the length of a range
\* of several bits.
C4_Witness ==
  /\ RotateInRange /\ a2 > 1 /\ a3 = -(2 * a2)
  /\ status = "ok" /\ buf = pre /\ \E b \in DOMAIN buf : buf[b] # 0

\* C5: after bitarray_rotate by k and then by -k over the same range, the
\* second call has returned and the array holds what it held before the
\* first.
C5_RotateThereAndBack == op = "rotate_back" => (status = "ok" /\ buf = pre)

\* C6: a bitarray_set of an index < bit_sz returns; afterwards bitarray_get
\* returns the value set for that index and the previous value for every
\* other index, and only bit index % 8 of byte index / 8 may differ.
C6_SetThenGet ==
  (op = "set" /\ a1 < bit_sz) =>
     /\ status = "ok"
     /\ GetBit(buf, a1) = (a2 = 1)
     /\ \A j \in (0 .. bit_sz - 1) \ {a1} : GetBit(buf, j) = GetBit(pre, j)
     /\ \A b \in DOMAIN buf :
          IF b = a1 \div 8
          THEN BitAnd(buf[b], BitNot(bitmask(a1))) = BitAnd(pre[b], BitNot(bitmask(a1)))
          ELSE buf[b] = pre[b]

\* C6's case: a set bit beyond the first byte, next to set bits of the same
\* byte, is cleared.
C6_Witness ==
  /\ op = "set" /\ a1 < bit_sz /\ a1 >= 8 /\ a2 = 0 /\ status = "ok"
  /\ GetBit(pre, a1) /\ ~GetBit(buf, a1)
  /\ \E j \in (0 .. bit_sz - 1) \ {a1} : j \div 8 = a1 \div 8 /\ GetBit(buf, j)

\* C7: every request out of bounds (bitarray_get or bitarray_set of an
\* index >= bit_sz, bitarray_rotate with offset + length > bit_sz as a
\* mathematical sum) ends in a failed assertion, before any byte is read or
\* written, with the buffer unmodified.
C7_OutOfBoundsAborts ==
  (\/ op \in {"get", "set"} /\ a1 >= bit_sz
   \/ op = "rotate" /\ a1 + a2 > bit_sz)
  => (status = "abort" /\ ~acc /\ buf = pre)

\* C8: a reverse (left <= right < bit_sz) that has returned has exchanged
\* the bits of indices left + i and right - i and has left every bit outside
\* [left, right] as it was.
C8_ReverseReverses ==
  (op = "reverse" /\ status = "ok") =>
     /\ \A i \in 0 .. a2 - a1 : GetBit(buf, a1 + i) = GetBit(pre, a2 - i)
     /\ \A j \in 0 .. bit_sz - 1 :
          (j < a1 \/ j > a2) => GetBit(buf, j) = GetBit(pre, j)

\* C9: for every n and every m > 0 that is positive as an ssize_t,
\* modulo(n, m) returns the r with 0 <= r < m and r congruent to n modulo m.
C9_ModuloIsMathematical ==
  (op = "modulo" /\ a2 > 0 /\ a2 <= SSIZE_MAX) =>
     (status = "ok" /\ ret >= 0 /\ ret < a2 /\ (ret - a1) % a2 = 0)

\* C10: during a bitarray_rotate of a range in the array (and the rotate
\* that undoes it), every byte index read or written lies in the buffer,
\* and wholel, wholer, wholel - 1 and wholer / 8 - 1 keep their
\* mathematical values.
C10_RotateStaysInBuffer ==
  (op \in {"rotate", "rotate_back"} /\ a1 + a2 <= bit_sz) => (~oob /\ ~trunc)

=============================================================================
